---- MODULE Spec2Model ----
(***************************************************************************)
(* vt_keyword_watcher.py: the Availability Parser                          *)
(* (parse_seats_from_any_text and its three regular expressions) and the   *)
(* Monitor Loop of main().  Text is modelled as TLA+ strings, matched      *)
(* character by character the way Python's re module matches them.         *)
(***************************************************************************)
EXTENDS Integers, Sequences, FiniteSets, TLC

VARIABLES
    blob,          \* parse_seats_from_any_text: the argument `text`
    parsed,        \* parse_seats_from_any_text: the value returned
    ppc,           \* parse_seats_from_any_text: "call" before, "return" after
    crns,          \* cfg.crns
    notify_repeat, \* cfg.notify_repeat
    last_seen,     \* main: last_seen
    pc,            \* main: position of the loop
    idx,           \* main: index in cfg.crns of the identifier being processed
    cycle,         \* main: number of the current pass of `while True`
    readings,      \* history: <<crn, seats>> of every completed poll, oldest first
    raised,        \* history: check_one_crn raised and the exception left main
    notified,      \* history: per identifier, how many times line 390 held
    mail,          \* outcome of send_email in the last poll
    toast,         \* outcome of toaster.show_toast in the last poll
    slept,         \* history: calls of time.sleep(cfg.poll_seconds) in this cycle
    alerts,        \* history: the indices in `readings` of the polls that notified
    errors,        \* the count of consecutive failed queries kept by main
    locator,       \* first_present: the page it looks at and its locals
    overlay,       \* clear_overlays: the page it looks at and its locals
    clicker,       \* click_safely: what the driver does and its locals
    query          \* check_one_crn, lines 337-346: the rows and its locals

vars == <<blob, parsed, ppc, crns, notify_repeat, last_seen, pc, idx, cycle,
          readings, raised, notified, mail, toast, slept, alerts, errors,
          locator, overlay, clicker, query>>

parseVars == <<blob, parsed, ppc>>
loopVars == <<crns, notify_repeat, last_seen, pc, idx, cycle,
              readings, raised, notified, mail, toast, slept, alerts, errors>>
helperVars == <<locator, overlay, clicker, query>>

\* first_present, clear_overlays, click_safely and check_one_crn not running
LocatorOff == locator = [pc |-> "off"]
OverlayOff == overlay = [pc |-> "off"]
ClickerOff == clicker = [pc |-> "off"]
QueryOff == query = [pc |-> "off"]
HelpersOff == LocatorOff /\ OverlayOff /\ ClickerOff /\ QueryOff

\* Optional[int]: None is the empty tuple, the integer n is <<n>>
None == <<>>
Some(n) == <<n>>

(***************************************************************************)
(* Characters                                                              *)
(***************************************************************************)
Ch(t, i) == SubSeq(t, i, i)

UpperCase == <<"A","B","C","D","E","F","G","H","I","J","K","L","M",
               "N","O","P","Q","R","S","T","U","V","W","X","Y","Z">>
LowerCase == <<"a","b","c","d","e","f","g","h","i","j","k","l","m",
               "n","o","p","q","r","s","t","u","v","w","x","y","z">>
DigitChars == <<"0","1","2","3","4","5","6","7","8","9">>

Range(f) == {f[k] : k \in DOMAIN f}
UpperChars == Range(UpperCase)
DigitSet == Range(DigitChars)
WordChars == Range(UpperCase) \cup Range(LowerCase) \cup Range(DigitChars) \cup {"_"}

\* the lower-case letter of every upper-case letter
ToLower == [c \in UpperChars |-> LowerCase[CHOOSE k \in 1..26 : UpperCase[k] = c]]

\* str.lower() of one character
LowerCh(c) == IF c \in UpperChars THEN ToLower[c] ELSE c

\* str.lower()
RECURSIVE lower(_)
lower(t) ==
    IF Len(t) = 0 THEN ""
    ELSE LowerCh(Ch(t, 1)) \o lower(SubSeq(t, 2, Len(t)))

\* \d
IsDigit(c) == c \in DigitSet
\* \s
IsSpace(c) == c \in {" ", "\t", "\n", "\r"}
\* \w
IsWord(c) == c \in WordChars
\* [:\-]
IsSep(c) == c \in {":", "-"}

\* int() of one decimal digit
DigitVal(c) == (CHOOSE k \in 1..10 : DigitChars[k] = c) - 1

\* int() of a string of decimal digits
RECURSIVE int(_)
int(s) ==
    IF Len(s) = 0 THEN 0
    ELSE 10 * int(SubSeq(s, 1, Len(s) - 1)) + DigitVal(Ch(s, Len(s)))

Min(S) == CHOOSE m \in S : \A n \in S : m <= n

(***************************************************************************)
(* Pieces of the regular expressions.  Positions are 1-based; a position   *)
(* "after" a piece is the index of the first character not consumed.       *)
(***************************************************************************)
\* a literal under re.I, at position i
LitAt(t, i, w) ==
    /\ i >= 1
    /\ i + Len(w) - 1 <= Len(t)
    /\ \A k \in 1..Len(w) : LowerCh(Ch(t, i + k - 1)) = Ch(w, k)

\* \s* (greedy) from position i
SkipSpace(t, i) ==
    CHOOSE j \in i..(Len(t) + 1) :
        /\ \A k \in i..(j - 1) : IsSpace(Ch(t, k))
        /\ (j = Len(t) + 1 \/ ~IsSpace(Ch(t, j)))

\* \d+ (greedy) from position i: the end of the run of digits, i if there is none
DigitsEnd(t, i) ==
    CHOOSE j \in i..(Len(t) + 1) :
        /\ \A k \in i..(j - 1) : IsDigit(Ch(t, k))
        /\ (j = Len(t) + 1 \/ ~IsDigit(Ch(t, j)))

\* \s*[:\-]?\s* from position i
SkipSep(t, i) ==
    LET a == SkipSpace(t, i)
    IN  IF a <= Len(t) /\ IsSep(Ch(t, a)) THEN SkipSpace(t, a + 1) ELSE a

\* \b at position i
WordBoundary(t, i) ==
    LET before == i > 1 /\ i - 1 <= Len(t) /\ IsWord(Ch(t, i - 1))
        after  == i >= 1 /\ i <= Len(t) /\ IsWord(Ch(t, i))
    IN  before # after

\* (w1|w2) at position i: the position after the alternative that lets the
\* rest match; w2 is a prefix of w1 in every use, and what follows is never
\* a letter, so at most one alternative can be continued
AltEnd(t, i, w1, w2) ==
    IF LitAt(t, i, w1) THEN i + Len(w1)
    ELSE IF LitAt(t, i, w2) THEN i + Len(w2)
    ELSE 0

\* keyword \s*[:\-]?\s*(\d+) with the keyword ending before position e:
\* <<start, end>> of the digits, or <<0, 0>>
NumberAfter(t, e) ==
    LET d == SkipSep(t, e)
        f == DigitsEnd(t, d)
    IN  IF f > d THEN <<d, f>> ELSE <<0, 0>>

(***************************************************************************)
(* The regular expressions.  A match is the tuple of its groups; NoMatch   *)
(* stands for the None that search() returns.  search() reports the match  *)
(* with the leftmost start.                                                *)
(***************************************************************************)
NoMatch == <<>>

\* RGX_OF_SEATS at start position i: (\d+)\s*of\s*(\d+)\s*seats
OfSeatsAt(t, i) ==
    LET e1 == DigitsEnd(t, i)
        a  == SkipSpace(t, e1)
        b  == SkipSpace(t, a + 2)
        e2 == DigitsEnd(t, b)
        c  == SkipSpace(t, e2)
    IN  IF /\ e1 > i
           /\ LitAt(t, a, "of")
           /\ e2 > b
           /\ LitAt(t, c, "seats")
        THEN <<SubSeq(t, i, e1 - 1), SubSeq(t, b, e2 - 1)>>
        ELSE NoMatch

RGX_OF_SEATS(t) ==
    LET starts == {i \in 1..Len(t) : OfSeatsAt(t, i) # NoMatch}
    IN  IF starts = {} THEN NoMatch ELSE OfSeatsAt(t, Min(starts))

\* RGX_SEATS_KV[0] at i: seats\s*(available|remaining)\s*[:\-]?\s*(\d+)
SeatsKwAt(t, i) ==
    LET a == SkipSpace(t, i + 5)
        n == NumberAfter(t, a + 9)
    IN  IF /\ LitAt(t, i, "seats")
           /\ (LitAt(t, a, "available") \/ LitAt(t, a, "remaining"))
           /\ n # <<0, 0>>
        THEN <<SubSeq(t, a, a + 8), SubSeq(t, n[1], n[2] - 1)>>
        ELSE NoMatch

\* RGX_SEATS_KV[1] and [2] at i: \b<kw>\s*[:\-]?\s*(\d+)
WordKwAt(t, i, kw) ==
    LET n == NumberAfter(t, i + Len(kw))
    IN  IF /\ WordBoundary(t, i)
           /\ LitAt(t, i, kw)
           /\ n # <<0, 0>>
        THEN <<SubSeq(t, n[1], n[2] - 1)>>
        ELSE NoMatch

\* RGX_SEATS_KV[k].search(t), k = 1..3 for the list's indices 0..2
KvAt(k, t, i) ==
    CASE k = 1 -> SeatsKwAt(t, i)
      [] k = 2 -> WordKwAt(t, i, "remaining")
      [] k = 3 -> WordKwAt(t, i, "available")

RGX_SEATS_KV(k, t) ==
    LET starts == {i \in 1..Len(t) : KvAt(k, t, i) # NoMatch}
    IN  IF starts = {} THEN NoMatch ELSE KvAt(k, t, Min(starts))

\* the bound of .{0,40}?
MaxGap == 40

\* (kw1|kw2)\s*[:\-]?\s*(\d+) at i: <<start, end>> of the digits, or <<0, 0>>
FieldAt(t, i, kw1, kw2) ==
    LET e == AltEnd(t, i, kw1, kw2)
    IN  IF e = 0 THEN <<0, 0>> ELSE NumberAfter(t, e)

\* the positions, from position e on and at most MaxGap further (the lazy
\* .{0,40}? under re.S), where the field (kw1|kw2) matches
FieldStarts(t, e, kw1, kw2) ==
    {q \in e..(e + MaxGap) : q <= Len(t) /\ FieldAt(t, q, kw1, kw2) # <<0, 0>>}

\* the `remaining` fields that can end a match whose `enrolled` field is at q
RemStarts(t, q) ==
    FieldStarts(t, FieldAt(t, q, "enrolled", "enr")[2], "remaining", "rem")

\* the `enrolled` fields that can continue a match whose `capacity` is at i
EnrStarts(t, i) ==
    {q \in FieldStarts(t, FieldAt(t, i, "capacity", "cap")[2], "enrolled", "enr") :
        RemStarts(t, q) # {}}

\* RGX_CAP_ENR_REM at start position i.  The lazy gaps are tried shortest
\* first, so the first `enrolled` field that can be completed is taken and
\* then the first `remaining` field after it.
CapEnrRemAt(t, i) ==
    IF FieldAt(t, i, "capacity", "cap") = <<0, 0>> \/ EnrStarts(t, i) = {}
    THEN NoMatch
    ELSE LET q  == Min(EnrStarts(t, i))
             r  == Min(RemStarts(t, q))
             n2 == FieldAt(t, i, "capacity", "cap")
             n4 == FieldAt(t, q, "enrolled", "enr")
             n6 == FieldAt(t, r, "remaining", "rem")
         IN  << SubSeq(t, i, AltEnd(t, i, "capacity", "cap") - 1),
                SubSeq(t, n2[1], n2[2] - 1),
                SubSeq(t, q, AltEnd(t, q, "enrolled", "enr") - 1),
                SubSeq(t, n4[1], n4[2] - 1),
                SubSeq(t, r, AltEnd(t, r, "remaining", "rem") - 1),
                SubSeq(t, n6[1], n6[2] - 1) >>

RGX_CAP_ENR_REM(t) ==
    LET starts == {i \in 1..Len(t) : CapEnrRemAt(t, i) # NoMatch}
    IN  IF starts = {} THEN NoMatch ELSE CapEnrRemAt(t, Min(starts))

(***************************************************************************)
(* parse_seats_from_any_text                                               *)
(***************************************************************************)
\* str.isdigit() on a group of a match
isdigit(g) == Len(g) > 0 /\ \A k \in 1..Len(g) : IsDigit(Ch(g, k))

\* `w in t`
Contains(t, w) == \E i \in 1..(Len(t) - Len(w) + 1) : SubSeq(t, i, i + Len(w) - 1) = w

\* for g in m2.groups()[::-1]: if g and str(g).isdigit(): return int(g)
\* the last group that is a number, None when the loop falls through
LastDigitGroup(m) ==
    LET ks == {k \in 1..Len(m) : isdigit(m[k])}
    IN  IF ks = {} THEN None ELSE Some(int(m[CHOOSE k \in ks : \A j \in ks : j <= k]))

\* line 281 returning the second group
OfSeatsResultTotal(m) == Some(int(m[2]))

\* line 281
OfSeatsResult(m) == Some(int(m[1]))

\* lines 284-289 with `available: N` tried before `remaining: N`
KvResultAvailableFirst(t) ==
    LET r(k) == IF RGX_SEATS_KV(k, t) = NoMatch THEN None
                ELSE LastDigitGroup(RGX_SEATS_KV(k, t))
    IN  IF r(1) # None THEN r(1)
        ELSE IF r(3) # None THEN r(3)
        ELSE r(2)

\* lines 284-289: the first pattern of RGX_SEATS_KV, in list order, that
\* matches and returns; None when the loop ends without a return
KvResult(t) ==
    LET hit == {k \in 1..3 : /\ RGX_SEATS_KV(k, t) # NoMatch
                             /\ LastDigitGroup(RGX_SEATS_KV(k, t)) # None}
    IN  IF hit = {} THEN None ELSE LastDigitGroup(RGX_SEATS_KV(Min(hit), t))

\* lines 296-300 with "open" tested first
LiteralFallbackOpenFirst(t) ==
    IF Contains(t, "open") THEN Some(1)
    ELSE IF Contains(t, "full") \/ Contains(t, "closed") THEN Some(0)
    ELSE None

\* lines 296-300
LiteralFallback(t) ==
    IF Contains(t, "full") \/ Contains(t, "closed") THEN Some(0)
    ELSE IF Contains(t, "open") THEN Some(1)
    ELSE None

\* lines 276-300 with RGX_CAP_ENR_REM tried before RGX_SEATS_KV
parse_seats_cap_first(text) ==
    LET t  == lower(text)
        m  == RGX_OF_SEATS(t)
        m3 == RGX_CAP_ENR_REM(t)
    IN  IF m # NoMatch THEN OfSeatsResult(m)
        ELSE IF m3 # NoMatch THEN Some(int(m3[6]))
        ELSE IF KvResult(t) # None THEN KvResult(t)
        ELSE LiteralFallback(t)

parse_seats_from_any_text(text) ==
    LET t  == lower(text)
        m  == RGX_OF_SEATS(t)
        m3 == RGX_CAP_ENR_REM(t)
    IN  IF m # NoMatch THEN OfSeatsResult(m)
        ELSE IF KvResult(t) # None THEN KvResult(t)
        ELSE IF m3 # NoMatch THEN Some(int(m3[6]))
        ELSE LiteralFallback(t)

(***************************************************************************)
(* The texts the parser is applied to: every concatenation of at most      *)
(* MaxFrags of the fragments below.                                        *)
(***************************************************************************)
MaxFrags == 3

Fragments ==
    { "3 of 5 seats", "3 OF 5 Seats", "2 of 4 seats", "1",
      "remaining: 2", "Seats Available: 7", "available: 4",
      "cap: 9 enr: 6 rem: 3",
      "closed", "FULL", "Open", " | ", "x" }

RECURSIVE BlobsOf(_)
BlobsOf(n) ==
    IF n = 0 THEN {""}
    ELSE BlobsOf(n - 1) \cup {b \o f : b \in BlobsOf(n - 1), f \in Fragments}

Blobs == BlobsOf(MaxFrags)

(***************************************************************************)
(* The parser on its own: called once on any of the texts.                 *)
(***************************************************************************)
\* main() is not running
LoopOff ==
    /\ crns = <<>>
    /\ notify_repeat = FALSE
    /\ last_seen = <<>>
    /\ pc = "off"
    /\ idx = 0
    /\ cycle = 0
    /\ readings = <<>>
    /\ raised = FALSE
    /\ notified = <<>>
    /\ mail = "none"
    /\ toast = "none"
    /\ slept = 0
    /\ alerts = {}
    /\ errors = 0

ParseInit ==
    /\ blob \in Blobs
    /\ parsed = None
    /\ ppc = "call"
    /\ LoopOff
    /\ HelpersOff

Parse ==
    /\ ppc = "call"
    /\ parsed' = parse_seats_from_any_text(blob)
    /\ ppc' = "return"
    /\ UNCHANGED blob
    /\ UNCHANGED loopVars
    /\ UNCHANGED helperVars

ParseNext == Parse

SpecParse == ParseInit /\ [][ParseNext]_vars

(***************************************************************************)
(* Properties of the parser.  The rules are stated on the text as given,   *)
(* matched without regard to letter case.                                  *)
(***************************************************************************)
\* the text contains w in some letter case
ContainsI(t, w) == \E i \in 1..Len(t) : LitAt(t, i, w)

Rule1(t) == RGX_OF_SEATS(t)
Rule2(k, t) == RGX_SEATS_KV(k, t)
Rule3(t) == RGX_CAP_ENR_REM(t)

NoNumericRule(t) ==
    /\ Rule1(t) = NoMatch
    /\ \A k \in 1..3 : Rule2(k, t) = NoMatch
    /\ Rule3(t) = NoMatch

\* the number captured by the first keyword pattern, in list order, that matches
KeywordValue(t) ==
    IF Rule2(1, t) # NoMatch THEN int(Rule2(1, t)[2])
    ELSE IF Rule2(2, t) # NoMatch THEN int(Rule2(2, t)[1])
    ELSE int(Rule2(3, t)[1])

\* C7: the parser returns the result of the first rule that matches, in the
\* order 'N of M seats', 'seats (available|remaining): N', 'remaining: N',
\* 'available: N', capacity/enrolled/remaining, 'full' or 'closed' (0), 'open'
\* (1), otherwise undetermined; letter case does not matter.
C7_FirstMatchingRuleWins ==
    ppc = "return" =>
        parsed =
            IF Rule1(blob) # NoMatch THEN Some(int(Rule1(blob)[1]))
            ELSE IF \E k \in 1..3 : Rule2(k, blob) # NoMatch THEN Some(KeywordValue(blob))
            ELSE IF Rule3(blob) # NoMatch THEN Some(int(Rule3(blob)[6]))
            ELSE IF ContainsI(blob, "full") \/ ContainsI(blob, "closed") THEN Some(0)
            ELSE IF ContainsI(blob, "open") THEN Some(1)
            ELSE None

\* C7 witness: 'available: 4' stands left of 'remaining: 2' and the result
\* is 2, the pattern earlier in the list
C7_Witness ==
    /\ ppc = "return"
    /\ Rule1(blob) = NoMatch
    /\ Rule2(1, blob) = NoMatch
    /\ Rule2(2, blob) # NoMatch
    /\ Rule2(3, blob) # NoMatch
    /\ Rule2(2, blob) # Rule2(3, blob)
    /\ ContainsI(blob, "available: 4 | remaining: 2")
    /\ parsed = Some(2)

\* the text contains "3 of 5 seats" in some letter case
HasThreeOfFive(t) == ContainsI(t, "3 of 5 seats")

\* ... and nothing before that occurrence matches 'N of M seats'
ThreeOfFiveIsFirst(t) ==
    \E p \in 1..Len(t) :
        /\ LitAt(t, p, "3 of 5 seats")
        /\ \A i \in 1..(p - 1) : OfSeatsAt(t, i) = NoMatch

\* C8 as claimed: every text containing "3 of 5 seats" parses to 3, whatever
\* precedes that occurrence.
C8_ThreeOfFiveAnywhere ==
    (ppc = "return" /\ HasThreeOfFive(blob)) => parsed = Some(3)

\* C8: a text containing "3 of 5 seats" in any letter case, with no match of
\* 'N of M seats' starting before that occurrence (so no digit directly before
\* the 3 either), parses to 3 whatever other seat-like text it contains.
C8_ThreeOfFiveFirst ==
    (ppc = "return" /\ ThreeOfFiveIsFirst(blob)) => parsed = Some(3)

\* C8 witness: "3 OF 5 Seats" after a keyword pattern with another number
C8_Witness ==
    /\ ppc = "return"
    /\ ThreeOfFiveIsFirst(blob)
    /\ ~Contains(blob, "3 of 5 seats")
    /\ \E k \in 1..3 : Rule2(k, blob) # NoMatch /\ KeywordValue(blob) # 3
    /\ parsed = Some(3)

\* C9: a text that matches none of the numeric rules parses to 0 if it
\* contains 'full' or 'closed', else to 1 if it contains 'open', else to
\* undetermined; with both 'open' and 'closed' (or 'full') the result is 0.
C9_LiteralFallback ==
    (ppc = "return" /\ NoNumericRule(blob)) =>
        /\ (ContainsI(blob, "full") \/ ContainsI(blob, "closed")) => parsed = Some(0)
        /\ (/\ ~ContainsI(blob, "full")
            /\ ~ContainsI(blob, "closed")
            /\ ContainsI(blob, "open")) => parsed = Some(1)
        /\ (/\ ~ContainsI(blob, "full")
            /\ ~ContainsI(blob, "closed")
            /\ ~ContainsI(blob, "open")) => parsed = None

\* C9 witness: 'open' stands before 'closed' and the result is 0
C9_Witness ==
    /\ ppc = "return"
    /\ NoNumericRule(blob)
    /\ ContainsI(blob, "open | closed")
    /\ parsed = Some(0)

\* a keyword pattern and the capacity/enrolled/remaining pattern both match,
\* with different numbers, and 'N of M seats' does not
KeywordAndCapacityDiffer(t) ==
    /\ Rule1(t) = NoMatch
    /\ \E k \in 1..3 : Rule2(k, t) # NoMatch
    /\ Rule3(t) # NoMatch
    /\ KeywordValue(t) # int(Rule3(t)[6])

\* C10: when a keyword pattern and the capacity/enrolled/remaining pattern
\* both match with different numbers, and 'N of M seats' does not match, the
\* result is the keyword pattern's number and not the remaining count.
C10_KeywordBeforeCapacity ==
    (ppc = "return" /\ KeywordAndCapacityDiffer(blob)) =>
        /\ parsed = Some(KeywordValue(blob))
        /\ parsed # Some(int(Rule3(blob)[6]))

\* C10 witness: "remaining: 2" with capacity 9, enrolled 6, remaining 3
C10_Witness ==
    /\ ppc = "return"
    /\ KeywordAndCapacityDiffer(blob)
    /\ Rule2(2, blob) = <<"2">>
    /\ Rule3(blob)[6] = "3"
    /\ parsed = Some(2)

(***************************************************************************)
(* main(): the monitoring loop, lines 380-403                              *)
(***************************************************************************)
\* the polls a run is followed for
MaxPolls == 6

\* cfg.crns, as config_keyword.json may give it
CrnLists == { <<"12345", "67890">>, <<"67890">> }

\* what a result row of the page can say besides the identifier
RowTexts == { "3 of 5 seats", "remaining: 2", "Closed", "TBA" }

\* parse_row_seats for a row whose text is the identifier and `text`
\* (lines 318-322): the blob and what the parser makes of it
RowBlob(crn, text) == crn \o " | " \o text

\* check_one_crn, when it returns: <<seats, raw>> of the first row that
\* contains the identifier (lines 341-345), or (None, "") (line 346)
QueryResults(crn) ==
    { <<None, "">> } \cup
    { <<parse_seats_from_any_text(RowBlob(crn, x)), RowBlob(crn, x)>> : x \in RowTexts }

\* the values of check_one_crn per identifier
Results == [c \in {"12345", "67890"} |-> QueryResults(c)]

\* line 390 without `prev <= 0`
ShouldNotifyUnknownOnly(seats, prev, repeat) ==
    /\ seats # None
    /\ seats[1] > 0
    /\ (repeat \/ prev = None)

\* line 390 without `seats > 0`
ShouldNotifyAnyReading(seats, prev, repeat) ==
    /\ seats # None
    /\ (repeat \/ prev = None \/ prev[1] <= 0)

\* line 390 without the test of `prev` and of cfg.notify_repeat
ShouldNotifyEveryPositive(seats, prev, repeat) ==
    /\ seats # None
    /\ seats[1] > 0

\* line 390
ShouldNotify(seats, prev, repeat) ==
    /\ seats # None
    /\ seats[1] > 0
    /\ (repeat \/ prev = None \/ prev[1] <= 0)

\* lines 393-397 without the try block
MailUncaught == FALSE

\* lines 393-397: `except Exception` around send_email catches its failure
MailCaught == TRUE

\* lines 398-401: `except Exception` around show_toast catches its failure
ToastCaught == TRUE

\* line 402 skipped for an undetermined reading
StoreSeenKnownOnly(seen, crn, seats) ==
    IF seats = None THEN seen ELSE [seen EXCEPT ![crn] = seats]

\* line 402 writing every entry of the map
StoreSeenAll(seen, crn, seats) == [c \in DOMAIN seen |-> seats]

\* line 402
StoreSeen(seen, crn, seats) == [seen EXCEPT ![crn] = seats]

\* line 380 and the first pass through lines 381-383
Init ==
    /\ crns \in CrnLists
    /\ notify_repeat \in BOOLEAN
    /\ last_seen = [c \in Range(crns) |-> None]
    /\ pc = "query"
    /\ idx = 1
    /\ cycle = 1
    /\ readings = <<>>
    /\ raised = FALSE
    /\ notified = [c \in Range(crns) |-> 0]
    /\ mail = "none"
    /\ toast = "none"
    /\ slept = 0
    /\ alerts = {}
    /\ errors = 0
    /\ blob = ""
    /\ parsed = None
    /\ ppc = "return"
    /\ HelpersOff

\* lines 384-402 when check_one_crn returns: one identifier is processed
Poll ==
    /\ pc = "query"
    /\ Len(readings) < MaxPolls
    /\ LET crn == crns[idx] IN
       \E res \in Results[crn], mailOk \in BOOLEAN, toastOk \in BOOLEAN :
         LET seats  == res[1]
             prev   == last_seen[crn]
             notify == ShouldNotify(seats, prev, notify_repeat)
             mailFails  == notify /\ ~mailOk
             toastTried == notify /\ (mailOk \/ MailCaught)
             toastFails == toastTried /\ ~toastOk
             escapes    == \/ mailFails /\ ~MailCaught
                           \/ toastFails /\ ~ToastCaught
         IN  /\ parsed' = seats
             /\ blob' = res[2]
             /\ mail' = IF notify THEN (IF mailOk THEN "sent" ELSE "failed") ELSE "none"
             /\ toast' = IF toastTried THEN (IF toastOk THEN "shown" ELSE "failed")
                         ELSE "none"
             /\ notified' = IF notify THEN [notified EXCEPT ![crn] = @ + 1] ELSE notified
             /\ alerts' = IF notify THEN alerts \cup {Len(readings) + 1} ELSE alerts
             /\ IF escapes
                THEN /\ pc' = "terminated"
                     /\ UNCHANGED <<last_seen, readings>>
                ELSE /\ pc' = "sleep"
                     /\ last_seen' = StoreSeen(last_seen, crn, seats)
                     /\ readings' = Append(readings, <<crn, seats>>)
    /\ UNCHANGED <<ppc, crns, notify_repeat, idx, cycle, raised, slept, errors>>
    /\ UNCHANGED helperVars

\* line 384 with a handler that marks the failing identifier Unknown
QueryRaisesMarksUnknown ==
    /\ pc = "query"
    /\ Len(readings) < MaxPolls
    /\ pc' = "terminated"
    /\ raised' = TRUE
    /\ last_seen' = [last_seen EXCEPT ![crns[idx]] = None]
    /\ UNCHANGED <<blob, parsed, ppc, crns, notify_repeat, idx, cycle,
                   readings, notified, mail, toast, slept, alerts, errors>>
    /\ UNCHANGED helperVars

\* line 384 when check_one_crn raises (first_present, click_safely or the
\* wait for rows): nothing in main catches it, the finally clause of lines
\* 404-409 runs and main ends
QueryRaises ==
    /\ pc = "query"
    /\ Len(readings) < MaxPolls
    /\ pc' = "terminated"
    /\ raised' = TRUE
    /\ UNCHANGED <<blob, parsed, ppc, crns, notify_repeat, last_seen, idx, cycle,
                   readings, notified, mail, toast, slept, alerts, errors>>
    /\ UNCHANGED helperVars

\* line 403 followed by a `break`: every pass polls the first identifier only
SleepThenBreak ==
    /\ pc = "sleep"
    /\ pc' = "query"
    /\ idx' = 1
    /\ slept' = 0
    /\ cycle' = cycle + 1
    /\ mail' = "none"
    /\ toast' = "none"
    /\ UNCHANGED <<blob, parsed, ppc, crns, notify_repeat, last_seen,
                   readings, raised, notified, alerts, errors>>
    /\ UNCHANGED helperVars

\* line 403, then the next identifier of the for loop or, after the last
\* one, the next pass of `while True` (lines 381-383)
Sleep ==
    /\ pc = "sleep"
    /\ pc' = "query"
    /\ IF idx < Len(crns)
       THEN /\ idx' = idx + 1
            /\ slept' = slept + 1
            /\ UNCHANGED cycle
       ELSE /\ idx' = 1
            /\ slept' = 0
            /\ cycle' = cycle + 1
    /\ mail' = "none"
    /\ toast' = "none"
    /\ UNCHANGED <<blob, parsed, ppc, crns, notify_repeat, last_seen,
                   readings, raised, notified, alerts, errors>>
    /\ UNCHANGED helperVars

Next == Poll \/ QueryRaises \/ Sleep

Spec == Init /\ [][Next]_vars

(***************************************************************************)
(* Properties of the monitoring loop                                       *)
(***************************************************************************)
\* the identifier being processed
Current == crns[idx]

Positive(seats) == seats # None /\ seats[1] > 0

\* no completed poll of identifier c had a positive reading
NoPositiveSoFar(c) ==
    \A k \in 1..Len(readings) : readings[k][1] = c => ~Positive(readings[k][2])

\* the readings of identifier c, oldest first
RECURSIVE ReadingsOf(_, _)
ReadingsOf(c, log) ==
    IF log = <<>> THEN <<>>
    ELSE IF Head(log)[1] = c THEN <<Head(log)[2]>> \o ReadingsOf(c, Tail(log))
    ELSE ReadingsOf(c, Tail(log))

\* C1: a poll fires a notification if and only if the fresh reading is an
\* integer > 0 and (repeat mode is on or the identifier's previous state is
\* Unknown or Unavailable); a poll that does not notify attempts no dispatch.
C1_NotifyIff ==
    [][ (pc = "query" /\ pc' = "sleep") =>
          LET fired == notified'[Current] = notified[Current] + 1
              due   == /\ parsed' # None
                       /\ parsed'[1] > 0
                       /\ \/ notify_repeat
                          \/ last_seen[Current] = None
                          \/ last_seen[Current] = Some(0)
          IN  /\ fired <=> due
              /\ ~fired => notified' = notified
              /\ fired <=> mail' # "none"
              /\ fired <=> toast' # "none" ]_vars

\* C1 witness: with repeat mode off, Unavailable -> Available has notified and
\* the next positive reading of the same identifier has not
C1_Witness ==
    /\ pc = "sleep"
    /\ ~notify_repeat
    /\ ReadingsOf(Current, readings) = <<Some(0), Some(3), Some(2)>>
    /\ notified[Current] = 1
    /\ mail = "none"

\* C2: every identifier starts Unknown; after each completed poll the entry
\* of the polled identifier is the fresh reading, whatever it was before; the
\* loop ends only when a query raises, never because a reading is undetermined.
C2_StateIsFreshReading ==
    /\ DOMAIN last_seen = Range(crns)
    /\ readings = <<>> => \A c \in DOMAIN last_seen : last_seen[c] = None
    /\ pc = "sleep" => /\ last_seen[Current] = parsed
                       /\ readings[Len(readings)] = <<Current, parsed>>
    /\ pc = "terminated" => raised
    /\ pc \in {"query", "sleep", "terminated"}

\* C2 witness: an Available identifier has read undetermined, is Unknown again,
\* and the poll after it has been made
C2_Witness ==
    /\ pc = "sleep"
    /\ Len(readings) >= 3
    /\ readings[Len(readings) - 1][2] = None
    /\ \E k \in 1..(Len(readings) - 2) :
          /\ readings[k][1] = readings[Len(readings) - 1][1]
          /\ Positive(readings[k][2])
    /\ readings[Len(readings)][1] # readings[Len(readings) - 1][1]
    /\ last_seen[readings[Len(readings) - 1][1]] = None

\* C3: a query that fails leaves the loop running: the remaining identifiers
\* of the cycle and the later cycles are still queried.
C3_QueryFailureIsolated ==
    raised => pc \in {"query", "sleep"}

\* C4: the poll interval is slept once per cycle, after the last identifier:
\* never between two identifiers of the same cycle.
C4_SleepOncePerCycle ==
    /\ pc = "sleep" => idx = Len(crns)
    /\ pc = "query" => slept = 0

\* C5: a poll whose mail or toast failed still stores the fresh reading, as a
\* poll whose dispatch succeeded does, still attempts the toast after a failed
\* mail, and goes on to the sleep and the next identifier.
C5_DispatchFailureHarmless ==
    [][ (pc = "query" /\ (mail' = "failed" \/ toast' = "failed")) =>
          /\ pc' = "sleep"
          /\ last_seen' = [last_seen EXCEPT ![Current] = parsed']
          /\ toast' # "none"
          /\ raised' = raised ]_vars

\* C5 witness: mail and toast both failed and the reading is stored
C5_Witness ==
    /\ pc = "sleep"
    /\ mail = "failed"
    /\ toast = "failed"
    /\ Positive(parsed)
    /\ last_seen[Current] = parsed

Scenario12 == << <<"12345", None>>, <<"67890", Some(0)>> >>
Scenario34 == << <<"12345", Some(3)>>, <<"67890", Some(0)>> >>

\* C6: with identifiers ["12345", "67890"] and repeat mode off, readings
\* [undetermined, 0] then [3, 0] give no notification in cycle 1 and exactly
\* one, for "12345", in cycle 2.  In general an identifier without a positive
\* reading so far has no notification, and its first positive reading gives
\* exactly one notification for it and none for the others.
C6_FirstPositiveNotifiesOnce ==
    /\ [] ( (crns = <<"12345", "67890">> /\ ~notify_repeat) =>
              /\ readings = Scenario12 =>
                    notified = [c \in {"12345", "67890"} |-> 0]
              /\ readings = Scenario12 \o SubSeq(Scenario34, 1, 1) =>
                    notified = [c \in {"12345", "67890"} |-> IF c = "12345" THEN 1 ELSE 0]
              /\ readings = Scenario12 \o Scenario34 =>
                    notified = [c \in {"12345", "67890"} |-> IF c = "12345" THEN 1 ELSE 0] )
    /\ [] (\A c \in DOMAIN notified : NoPositiveSoFar(c) => notified[c] = 0)
    /\ [][ (pc = "query" /\ pc' = "sleep" /\ NoPositiveSoFar(Current) /\ Positive(parsed')) =>
              notified' = [notified EXCEPT ![Current] = 1] ]_vars

\* C6 witness: the end of cycle 2 of the scenario
C6_Witness ==
    /\ crns = <<"12345", "67890">>
    /\ ~notify_repeat
    /\ readings = Scenario12 \o Scenario34
    /\ notified["12345"] = 1
    /\ notified["67890"] = 0

\* C14: main keeps a count of consecutive failed queries: one more for every
\* query that fails, zero again after a query that succeeds.
C14_ErrorCountTracked ==
    [][ /\ (raised' /\ ~raised) => errors' = errors + 1
        /\ (pc = "query" /\ pc' = "sleep") => errors' = 0 ]_vars

\* C17: the polls follow the configured list, one identifier at a time: the
\* k-th poll is of the identifier at place ((k - 1) mod n) + 1, so each
\* identifier is queried once per cycle, in list order, and a cycle begins only
\* when all identifiers of the cycle before have been processed.
C17_ConfiguredOrder ==
    LET n == Len(crns) IN
    /\ idx \in 1..n
    /\ \A k \in 1..Len(readings) : readings[k][1] = crns[((k - 1) % n) + 1]
    /\ pc \in {"query", "terminated"} => Len(readings) = (cycle - 1) * n + (idx - 1)
    /\ pc = "sleep" => Len(readings) = (cycle - 1) * n + idx

\* C17 witness: the last identifier of the third cycle of two identifiers
C17_Witness ==
    /\ Len(crns) = 2
    /\ cycle = 3
    /\ idx = 2
    /\ pc = "sleep"
    /\ Len(readings) = 6

\* the poll of the same identifier before poll k, 0 if there is none
PrevPoll(k) ==
    LET before == {m \in 1..(k - 1) : readings[m][1] = readings[k][1]}
    IN  IF before = {} THEN 0 ELSE CHOOSE m \in before : \A j \in before : j <= m

\* C18: with repeat mode off, between two notifications for one identifier
\* there is a poll of it that read 0 or undetermined; and a positive reading
\* that follows an undetermined one notifies, also when the identifier was
\* Available before that.
C18_NotificationsSeparated ==
    ~notify_repeat =>
        /\ \A j \in alerts : \A k \in alerts :
              (j < k /\ readings[j][1] = readings[k][1]) =>
                  \E m \in (j + 1)..(k - 1) :
                      /\ readings[m][1] = readings[k][1]
                      /\ ~Positive(readings[m][2])
        /\ \A k \in 1..Len(readings) :
              (/\ Positive(readings[k][2])
               /\ PrevPoll(k) # 0
               /\ readings[PrevPoll(k)][2] = None) => k \in alerts

\* C18 witness: Available, Unknown, Available with two notifications
C18_Witness ==
    /\ ~notify_repeat
    /\ pc = "sleep"
    /\ ReadingsOf(Current, readings) = <<Some(3), None, Some(2)>>
    /\ notified[Current] = 2
    /\ Len(readings) \in alerts

\* C19: a step changes no entry of last_seen but that of the identifier
\* being processed; the keys are the configured identifiers; every value is
\* None or a non-negative integer.
C19_OnlyOwnEntryChanges ==
    /\ [] (DOMAIN last_seen = Range(crns))
    /\ [] (\A c \in DOMAIN last_seen :
              \/ last_seen[c] = None
              \/ Len(last_seen[c]) = 1 /\ last_seen[c][1] \in Nat)
    /\ [][ /\ DOMAIN last_seen' = DOMAIN last_seen
           /\ \A c \in DOMAIN last_seen :
                 c # Current => last_seen'[c] = last_seen[c] ]_vars

\* C19 witness: the second identifier has been processed and the entry of the
\* first still holds its reading
C19_Witness ==
    /\ Len(crns) = 2
    /\ idx = 2
    /\ pc = "sleep"
    /\ last_seen[crns[1]] = Some(3)
    /\ last_seen[crns[2]] = Some(0)
    /\ readings[Len(readings) - 1] = <<crns[1], Some(3)>>

\* the reading of the last completed poll of identifier c, None if there is none
LastReading(c) ==
    LET r == ReadingsOf(c, readings)
    IN  IF r = <<>> THEN None ELSE r[Len(r)]

\* C20: the step in which a query raises dispatches nothing and changes no
\* entry of last_seen; afterwards nothing is queried, and the map is as the
\* last completed polls left it (the failing identifier keeps its state).
C20_RaiseEndsLoop ==
    /\ [] (raised => /\ pc = "terminated"
                     /\ \A c \in DOMAIN last_seen : last_seen[c] = LastReading(c))
    /\ [][ (raised' /\ ~raised) =>
              /\ last_seen' = last_seen
              /\ notified' = notified
              /\ alerts' = alerts
              /\ readings' = readings
              /\ mail' = "none"
              /\ toast' = "none" ]_vars
    /\ [][ raised => (pc' = pc /\ readings' = readings /\ last_seen' = last_seen) ]_vars

\* C20 witness: the query of an Available identifier has raised
C20_Witness ==
    /\ raised
    /\ pc = "terminated"
    /\ last_seen[Current] = Some(3)
    /\ Len(readings) >= 2

(***************************************************************************)
(* first_present, lines 139-148                                            *)
(***************************************************************************)
\* parse_seats_from_any_text not running
ParserOff ==
    /\ blob = ""
    /\ parsed = None
    /\ ppc = "return"

\* the longest list of candidates followed
MaxCands == 3

\* what the page gives for one candidate (by, sel): no element within the
\* wait, an element that does not become visible within the wait, or an
\* element that becomes visible
Outcomes == {"absent", "hidden", "visible"}

RECURSIVE SeqsUpTo(_, _)
SeqsUpTo(S, n) ==
    IF n = 0 THEN {<<>>}
    ELSE SeqsUpTo(S, n - 1) \cup
         {Append(q, x) : q \in {r \in SeqsUpTo(S, n - 1) : Len(r) = n - 1}, x \in S}

\* lines 143-145 returning the element as soon as it is present
PassesIfPresent(outcome) == outcome # "absent"

\* lines 143-145: both waits of the try block pass
Passes(outcome) == outcome = "visible"

\* line 147: the exception the try block of candidate k raises
FailureOf(k, outcome) ==
    IF outcome = "absent" THEN <<k, "presence">> ELSE <<k, "visibility">>

\* line 140 and the entry of the for loop
LocatorInit ==
    /\ \E c \in SeqsUpTo(Outcomes, MaxCands) :
          locator = [pc |-> "loop", cands |-> c, i |-> 1, tried |-> <<>>,
                     last_exc |-> <<>>, elem |-> 0, carried |-> <<>>]
    /\ OverlayOff /\ ClickerOff /\ QueryOff
    /\ ParserOff
    /\ LoopOff

\* lines 141-147: one pass of the for loop
TryCandidate ==
    /\ locator.pc = "loop"
    /\ locator.i <= Len(locator.cands)
    /\ LET k == locator.i
           o == locator.cands[k]
       IN  locator' =
             IF Passes(o)
             THEN [locator EXCEPT !.pc = "returned", !.elem = k,
                                  !.tried = Append(@, k)]
             ELSE [locator EXCEPT !.i = k + 1, !.last_exc = FailureOf(k, o),
                                  !.tried = Append(@, k)]
    /\ UNCHANGED <<overlay, clicker, query>>
    /\ UNCHANGED parseVars
    /\ UNCHANGED loopVars

\* line 148: the list is exhausted
RaiseTimeout ==
    /\ locator.pc = "loop"
    /\ locator.i > Len(locator.cands)
    /\ locator' = [locator EXCEPT !.pc = "raised", !.carried = locator.last_exc]
    /\ UNCHANGED <<overlay, clicker, query>>
    /\ UNCHANGED parseVars
    /\ UNCHANGED loopVars

LocatorNext == TryCandidate \/ RaiseTimeout

SpecLocator == LocatorInit /\ [][LocatorNext]_vars

\* the candidates in list order up to and including k
UpTo(k) == [j \in 1..k |-> j]

\* C11 as claimed: the element returned is that of the first candidate that
\* yields a present element, no candidate after a present one is tried, and
\* the timeout error is raised, with the last failure, exactly when no
\* candidate yields a present element that becomes visible.
C11_FirstPresentWins ==
    LET c == locator.cands
        present == {k \in 1..Len(c) : c[k] # "absent"}
    IN  /\ \A k \in Range(locator.tried) : \A j \in 1..(k - 1) : c[j] = "absent"
        /\ locator.pc = "returned" => locator.elem = Min(present)
        /\ locator.pc = "raised" => locator.carried = locator.last_exc

\* C11: the candidates are tried in list order; the element returned is that
\* of the first candidate whose element is present and becomes visible, and
\* no later candidate is tried; a candidate whose element is present but does
\* not become visible fails like an absent one and the next is tried; the
\* timeout error is raised exactly when no candidate passes, carrying the
\* failure of the last candidate (none when the list is empty).
C11_FirstVisibleWins ==
    LET c == locator.cands
        visible == {k \in 1..Len(c) : c[k] = "visible"}
    IN  /\ locator.pc = "returned" =>
              /\ visible # {}
              /\ locator.elem = Min(visible)
              /\ locator.tried = UpTo(locator.elem)
        /\ locator.pc = "raised" =>
              /\ visible = {}
              /\ locator.tried = UpTo(Len(c))
              /\ locator.carried =
                    IF Len(c) = 0 THEN <<>> ELSE FailureOf(Len(c), c[Len(c)])
        /\ locator.pc = "loop" =>
              /\ locator.tried = UpTo(locator.i - 1)
              /\ \A k \in 1..(locator.i - 1) : c[k] # "visible"

\* C11 witness: the first candidate is present but hidden, the second is
\* returned and the third is not tried
C11_Witness ==
    /\ locator.pc = "returned"
    /\ locator.cands = <<"hidden", "visible", "visible">>
    /\ locator.elem = 2
    /\ locator.tried = <<1, 2>>

(***************************************************************************)
(* clear_overlays, lines 159-217                                           *)
(***************************************************************************)
\* the most OK controls and shims, taken together, on a page
MaxElems == 2

\* the most calls of clear_overlays followed on one page
MaxCalls == 2

\* what the inactivity_no selectors (lines 103-106) can find: nothing, a
\* "No" button inside an inactivity dialog (both selectors find it), or a
\* "No" button elsewhere (only the second selector finds it)
NoButtons == {"none", "modal", "plain"}

\* an element the ok_button selectors (lines 99-102) can find: a <button>
\* whose text is OK (both selectors) or an <a> containing OK (second only),
\* displayed or not
OkControls == [tag : {"button", "a"}, state : {"visible", "invisible"}]

\* the style attribute of an element the shim selector (lines 107-109) finds
ShimStyles == {"", "opacity: 0.5;", "display: none;"}

Pages ==
    {p \in [no : NoButtons,
            oks : SeqsUpTo(OkControls, MaxElems),
            shims : SeqsUpTo(ShimStyles, MaxElems)] :
        Len(p.oks) + Len(p.shims) <= MaxElems}

\* a click succeeds and the element goes away, succeeds and the element
\* stays, or raises (intercepted, stale, not interactable)
ClickOutcomes == {"gone", "stays", "raises"}

\* the selectors of one role, in list order
Selectors == 1..2

\* driver.find_elements for the s-th ok_button selector on the controls q
OkFound(s, q) ==
    {i \in 1..Len(q) : q[i].state # "gone" /\ (s = 1 => q[i].tag = "button")}

\* line 202 treating no shim as hidden
NeverHidden(style) == FALSE

\* lines 201-202: style = (get_attribute("style") or "").lower();
\* "display: none" in style
AlreadyHidden(style) == Contains(lower(style), "display: none")

\* lines 204-209: the style attribute after the two setProperty calls
HiddenStyle(style) ==
    style \o "display: none !important; pointer-events: none !important;"

\* line 160, the entry of a call on page p after the calls that returned
\* earlier
Entered(p, earlier) ==
    [pc |-> "step1", call |-> Len(earlier) + 1, earlier |-> earlier,
     page |-> p, start |-> p, changed |-> FALSE, result |-> FALSE,
     attempted |-> {}, failed |-> {}, steps |-> {}]

OverlayInit ==
    /\ \E p \in Pages : overlay = Entered(p, <<>>)
    /\ LocatorOff /\ ClickerOff /\ QueryOff
    /\ ParserOff
    /\ LoopOff

\* lines 161-177: the inactivity prompt.  f[s] says that find_elements of
\* selector s raises, c is the outcome of scrolling to the button and
\* clicking it.
DismissInactivity ==
    /\ overlay.pc = "step1"
    /\ \E f \in [Selectors -> BOOLEAN], c \in ClickOutcomes :
          LET no == overlay.page.no
              ran2 == ~f[1] /\ no # "modal"
              btn_no == \/ ~f[1] /\ no = "modal"
                        \/ ran2 /\ ~f[2] /\ no = "plain"
              clicked == btn_no /\ c # "raises"
          IN  overlay' =
                [overlay EXCEPT
                   !.pc = "step2",
                   !.steps = @ \cup {1},
                   !.failed = @ \cup {<<1, 1>> : x \in {y \in {1} : f[1]}}
                                \cup {<<1, 2>> : x \in {y \in {1} : ran2 /\ f[2]}},
                   !.attempted = IF btn_no THEN @ \cup {<<"no", 0>>} ELSE @,
                   !.changed = @ \/ clicked,
                   !.page.no = IF clicked /\ c = "gone" THEN "none" ELSE @]
    /\ UNCHANGED <<locator, clicker, query>>
    /\ UNCHANGED parseVars
    /\ UNCHANGED loopVars

\* lines 179-194: the OK controls.  f[s] says that find_elements of selector
\* s raises, c[i] is the outcome of scrolling to control i and clicking it;
\* the click of a control that is not displayed raises.
ActivateOk ==
    /\ overlay.pc = "step2"
    /\ \E f \in [Selectors -> BOOLEAN],
          c \in [1..Len(overlay.page.oks) -> ClickOutcomes] :
          LET oks == overlay.page.oks
              Clicked(i, q) == q[i].state = "visible" /\ c[i] # "raises"
              After(S, q) ==
                  [i \in 1..Len(q) |->
                      IF i \in S /\ Clicked(i, q) /\ c[i] = "gone"
                      THEN [q[i] EXCEPT !.state = "gone"] ELSE q[i]]
              ran2 == ~f[1]
              F1 == IF f[1] THEN {} ELSE OkFound(1, oks)
              oks1 == After(F1, oks)
              F2 == IF ran2 /\ ~f[2] THEN OkFound(2, oks1) ELSE {}
              oks2 == After(F2, oks1)
              clicked == \/ \E i \in F1 : Clicked(i, oks)
                         \/ \E i \in F2 : Clicked(i, oks1)
          IN  overlay' =
                [overlay EXCEPT
                   !.pc = "step3",
                   !.steps = @ \cup {2},
                   !.failed = @ \cup {<<2, 1>> : x \in {y \in {1} : f[1]}}
                                \cup {<<2, 2>> : x \in {y \in {1} : ran2 /\ f[2]}},
                   !.attempted = @ \cup {<<"ok", i>> : i \in F1 \cup F2},
                   !.changed = @ \/ clicked,
                   !.page.oks = oks2]
    /\ UNCHANGED <<locator, clicker, query>>
    /\ UNCHANGED parseVars
    /\ UNCHANGED loopVars

\* lines 196-217: the shims, and the return.  f says that find_elements
\* raises, g[j] that reading the style of shim j or running the script on it
\* raises.
HideShims ==
    /\ overlay.pc = "step3"
    /\ \E f \in BOOLEAN, g \in [1..Len(overlay.page.shims) -> BOOLEAN] :
          LET shims == overlay.page.shims
              found == IF f THEN {} ELSE 1..Len(shims)
              hides(j) == j \in found /\ ~g[j] /\ ~AlreadyHidden(shims[j])
              changed == overlay.changed \/ \E j \in found : hides(j)
          IN  overlay' =
                [overlay EXCEPT
                   !.pc = "returned",
                   !.steps = @ \cup {3},
                   !.failed = @ \cup {<<3, 1>> : x \in {y \in {1} : f}},
                   !.attempted = @ \cup {<<"shim", j>> : j \in found},
                   !.changed = changed,
                   !.result = changed,
                   !.page.shims = [j \in 1..Len(shims) |->
                                     IF hides(j) THEN HiddenStyle(shims[j])
                                     ELSE shims[j]]]
    /\ UNCHANGED <<locator, clicker, query>>
    /\ UNCHANGED parseVars
    /\ UNCHANGED loopVars

\* the next call of clear_overlays on the page the last call left
CallAgain ==
    /\ overlay.pc = "returned"
    /\ overlay.call < MaxCalls
    /\ overlay' = Entered(overlay.page, Append(overlay.earlier, overlay.result))
    /\ UNCHANGED <<locator, clicker, query>>
    /\ UNCHANGED parseVars
    /\ UNCHANGED loopVars

OverlayNext == DismissInactivity \/ ActivateOk \/ HideShims \/ CallAgain

SpecOverlay == OverlayInit /\ [][OverlayNext]_vars

\* a page with no "No" button, no displayed OK control, and display: none in
\* the style of every shim
Unobstructed(p) ==
    /\ p.no = "none"
    /\ \A i \in 1..Len(p.oks) : p.oks[i].state # "visible"
    /\ \A j \in 1..Len(p.shims) : Contains(p.shims[j], "display: none")

\* C12: a call of clear_overlays that follows another call and starts on a
\* page with no remaining obstruction returns False and leaves the page as
\* it found it.
C12_SecondCallNoChange ==
    (overlay.pc = "returned" /\ overlay.call >= 2 /\ Unobstructed(overlay.start)) =>
        /\ overlay.result = FALSE
        /\ overlay.page = overlay.start

\* C12 witness: the first call hid a shim and returned True, the second call
\* found the shim hidden and an undisplayed OK control and returned False
C12_Witness ==
    /\ overlay.pc = "returned"
    /\ overlay.call = 2
    /\ overlay.earlier = <<TRUE>>
    /\ Unobstructed(overlay.start)
    /\ overlay.start.shims = <<HiddenStyle("")>>
    /\ overlay.start.oks = <<[tag |-> "button", state |-> "invisible"]>>
    /\ <<"ok", 1>> \in overlay.attempted
    /\ overlay.result = FALSE

\* the obstructions of page p
Obstructions(p) ==
    {<<"no", 0>> : x \in {y \in {1} : p.no # "none"}}
    \cup {<<"ok", i>> : i \in {k \in 1..Len(p.oks) : p.oks[k].state # "gone"}}
    \cup {<<"shim", j>> : j \in {k \in 1..Len(p.shims) :
                                   ~Contains(p.shims[k], "display: none")}}

\* the lookups <<sub-step, selector>> that find obstruction o of page p
LocatedBy(o, p) ==
    IF o[1] = "no" THEN (IF p.no = "modal" THEN {<<1, 1>>, <<1, 2>>} ELSE {<<1, 2>>})
    ELSE IF o[1] = "ok"
         THEN (IF p.oks[o[2]].tag = "button" THEN {<<2, 1>>, <<2, 2>>} ELSE {<<2, 2>>})
    ELSE {<<3, 1>>}

\* C16: every call of clear_overlays returns having gone through its three
\* sub-steps, and every obstruction on the page was attempted unless each
\* lookup that finds it was made and failed: a failure on one obstruction
\* leaves the others attempted.
C16_OthersStillAttempted ==
    overlay.pc = "returned" =>
        /\ overlay.steps = {1, 2, 3}
        /\ \A o \in Obstructions(overlay.start) :
              \/ o \in overlay.attempted
              \/ LocatedBy(o, overlay.start) \subseteq overlay.failed

(***************************************************************************)
(* click_safely, lines 220-237                                             *)
(***************************************************************************)
\* what execute_script can raise, and what elem.click() can raise
ScriptErrors == {"StaleElementReference", "Javascript"}
ClickErrors == {"StaleElementReference", "ElementClickIntercepted",
                "ElementNotInteractable"}

ClickerInit ==
    /\ clicker = [pc |-> "scrollIntoView", trace |-> <<>>, err |-> "none"]
    /\ LocatorOff /\ OverlayOff /\ QueryOff
    /\ ParserOff
    /\ LoopOff

\* the clicker after operation op ended with outcome o and control went to pc
Moved(op, o, to) ==
    [clicker EXCEPT !.pc = to, !.trace = Append(@, <<op, o>>),
                    !.err = IF to = "raised" THEN o ELSE @]

\* line 221, outside every try block
ScrollIntoView ==
    /\ clicker.pc = "scrollIntoView"
    /\ \/ clicker' = Moved("scrollIntoView", "ok", "clear_overlays")
       \/ \E e \in ScriptErrors : clicker' = Moved("scrollIntoView", e, "raised")
    /\ UNCHANGED <<locator, overlay, query>>
    /\ UNCHANGED parseVars
    /\ UNCHANGED loopVars

\* line 223: clear_overlays returns True or False and never raises
ClearFirst ==
    /\ clicker.pc = "clear_overlays"
    /\ \E changed \in {"True", "False"} :
          clicker' = Moved("clear_overlays", changed, "wait")
    /\ UNCHANGED <<locator, overlay, query>>
    /\ UNCHANGED parseVars
    /\ UNCHANGED loopVars

\* lines 224-227: the wait for clickability, a timeout is passed over
WaitClickable ==
    /\ clicker.pc = "wait"
    /\ \E o \in {"ok", "Timeout"} : clicker' = Moved("wait", o, "click")
    /\ UNCHANGED <<locator, overlay, query>>
    /\ UNCHANGED parseVars
    /\ UNCHANGED loopVars

\* lines 228-231 with the click outside the try block
DirectClickUnguarded ==
    /\ clicker.pc = "click"
    /\ \/ clicker' = Moved("click", "ok", "returned")
       \/ \E e \in ClickErrors : clicker' = Moved("click", e, "raised")
    /\ UNCHANGED <<locator, overlay, query>>
    /\ UNCHANGED parseVars
    /\ UNCHANGED loopVars

\* lines 228-231: elem.click(); return
DirectClick ==
    /\ clicker.pc = "click"
    /\ \/ clicker' = Moved("click", "ok", "returned")
       \/ \E e \in ClickErrors : clicker' = Moved("click", e, "script_click")
    /\ UNCHANGED <<locator, overlay, query>>
    /\ UNCHANGED parseVars
    /\ UNCHANGED loopVars

\* lines 232-234: the click by script
ScriptClick ==
    /\ clicker.pc = "script_click"
    /\ \/ clicker' = Moved("script_click", "ok", "returned")
       \/ \E e \in ScriptErrors : clicker' = Moved("script_click", e, "scrollBy")
    /\ UNCHANGED <<locator, overlay, query>>
    /\ UNCHANGED parseVars
    /\ UNCHANGED loopVars

\* line 235, inside the except block and outside every try block
ScrollUp ==
    /\ clicker.pc = "scrollBy"
    /\ \/ clicker' = Moved("scrollBy", "ok", "retry_click")
       \/ \E e \in ScriptErrors : clicker' = Moved("scrollBy", e, "raised")
    /\ UNCHANGED <<locator, overlay, query>>
    /\ UNCHANGED parseVars
    /\ UNCHANGED loopVars

\* line 237: the last elem.click(), outside every try block
RetryClick ==
    /\ clicker.pc = "retry_click"
    /\ \/ clicker' = Moved("retry_click", "ok", "returned")
       \/ \E e \in ClickErrors : clicker' = Moved("retry_click", e, "raised")
    /\ UNCHANGED <<locator, overlay, query>>
    /\ UNCHANGED parseVars
    /\ UNCHANGED loopVars

ClickerNext ==
    \/ ScrollIntoView
    \/ ClearFirst
    \/ WaitClickable
    \/ DirectClick
    \/ ScriptClick
    \/ ScrollUp
    \/ RetryClick

SpecClick == ClickerInit /\ [][ClickerNext]_vars

\* the operations of click_safely in the order of the text
ClickOrder == <<"scrollIntoView", "clear_overlays", "wait", "click",
                "script_click", "scrollBy", "retry_click">>

\* the click attempts that failed so far
FailedClicks ==
    {k \in 1..Len(clicker.trace) :
        /\ clicker.trace[k][1] \in {"click", "script_click", "retry_click"}
        /\ clicker.trace[k][2] # "ok"}

\* the operations before the first click ended without an error
Prepared(k) == clicker.trace[k][2] \in {"ok", "True", "False", "Timeout"}

\* C15 as claimed: the operations come in the order of the text, with the
\* clearer before every click and each later attempt only after the failure
\* of the one before; the call returns at the first attempt that succeeds;
\* and an error propagates only when all three click attempts failed.
C15_RaisesOnlyAfterThreeClicks ==
    LET t == clicker.trace IN
    /\ \A k \in 1..Len(t) : t[k][1] = ClickOrder[k]
    /\ clicker.pc = "returned" => t[Len(t)][2] = "ok" /\ Len(t) \in 4..7
    /\ clicker.pc = "raised" => FailedClicks = {4, 5, 7}

\* C15: the operations come in the order of the text, so the clearer runs
\* before every click and the attempts are the direct click, the click by
\* script, the scroll up and the second direct click, each made only after
\* the failure of the attempt before; the call returns at the first attempt
\* that succeeds; an error of a click attempt propagates only when all three
\* attempts failed, and it is the error of the last one; an error of the
\* scroll into view propagates before any attempt, and an error of the
\* scroll up after two failed attempts.
C15_ClickOrder ==
    LET t == clicker.trace
        n == Len(t)
    IN
    /\ n <= 7
    /\ \A k \in 1..n : t[k][1] = ClickOrder[k]
    /\ \A k \in 1..n : k <= 3 /\ k < n => Prepared(k)
    /\ n >= 5 => t[4][2] # "ok"
    /\ n >= 6 => t[5][2] # "ok"
    /\ n >= 7 => t[6][2] = "ok"
    /\ clicker.pc = "returned" <=> (n \in {4, 5, 7} /\ t[n][2] = "ok")
    /\ clicker.pc = "raised" <=> (n \in {1, 6, 7} /\ t[n][2] # "ok")
    /\ clicker.pc = "raised" =>
          /\ clicker.err = t[n][2]
          /\ n = 7 => FailedClicks = {4, 5, 7}
          /\ n = 6 => FailedClicks = {4, 5}
          /\ n = 1 => FailedClicks = {}
    /\ clicker.pc \notin {"returned", "raised"} => clicker.pc = ClickOrder[n + 1]

\* C15 witness: the direct click and the click by script failed, the scroll
\* up raised and its error reached the caller
C15_Witness ==
    /\ clicker.pc = "raised"
    /\ Len(clicker.trace) = 6
    /\ clicker.trace[2] = <<"clear_overlays", "False">>
    /\ clicker.trace[4] = <<"click", "ElementClickIntercepted">>
    /\ clicker.trace[5] = <<"script_click", "Javascript">>
    /\ clicker.err = "StaleElementReference"

(***************************************************************************)
(* check_one_crn from the lookup of the result rows, lines 337-346         *)
(***************************************************************************)
\* the most result rows on the page
MaxRows == 3

\* the identifiers looked for
QueryCrns == {"Ab1", "12"}

\* result rows, each the texts of its cells
TableRows == { <<"AB1", "3 of 5 seats">>, <<"ab1", "Closed">>,
               <<"Ab12", "remaining: 2">>, <<"xy9", "Open">> }

\* sep.join(parts)
RECURSIVE Join(_, _)
Join(parts, sep) ==
    IF parts = <<>> THEN ""
    ELSE IF Len(parts) = 1 THEN parts[1]
    ELSE parts[1] \o sep \o Join(Tail(parts), sep)

\* text_plus_attrs (lines 249-273) of a row: its rendered text, the texts of
\* its cells one after the other
RowText(cells) == Join(cells, " ")

\* parse_row_seats (lines 303-322) of a row without badges: the texts of
\* the row and of its cells joined, and what the parser makes of it
parse_row_seats(cells) ==
    LET raw_parts == <<RowText(cells)>> \o cells
        row_raw == Join(SelectSeq(raw_parts, LAMBDA x : x # ""), " | ")
    IN  <<parse_seats_from_any_text(row_raw), row_raw>>

\* line 343 without the two lower()
RowMatchesExact(crn, row_text) == Contains(row_text, crn)

\* lines 342-343: row_blob = text_plus_attrs(row).lower();
\* crn.lower() in row_blob
RowMatches(crn, row_text) == Contains(lower(row_text), lower(crn))

QueryInit ==
    /\ \E c \in QueryCrns, r \in SeqsUpTo(TableRows, MaxRows) :
          query = [pc |-> "find_rows", crn |-> c, rows |-> r, i |-> 1,
                   examined |-> <<>>, parsed_rows |-> <<>>,
                   result |-> <<None, "">>]
    /\ LocatorOff /\ OverlayOff /\ ClickerOff
    /\ ParserOff
    /\ LoopOff

\* lines 337-340: the rows of the page; with none after the wait of ten
\* seconds WebDriverWait raises TimeoutException
FindRows ==
    /\ query.pc = "find_rows"
    /\ query' = [query EXCEPT !.pc = IF query.rows = <<>> THEN "raised" ELSE "scan"]
    /\ UNCHANGED <<locator, overlay, clicker>>
    /\ UNCHANGED parseVars
    /\ UNCHANGED loopVars

\* lines 341-345: one pass of the loop over the rows
ExamineRow ==
    /\ query.pc = "scan"
    /\ query.i <= Len(query.rows)
    /\ LET k == query.i
           row == query.rows[k]
       IN  query' =
             IF RowMatches(query.crn, RowText(row))
             THEN [query EXCEPT !.pc = "returned",
                                !.examined = Append(@, k),
                                !.parsed_rows = Append(@, k),
                                !.result = parse_row_seats(row)]
             ELSE [query EXCEPT !.i = k + 1, !.examined = Append(@, k)]
    /\ UNCHANGED <<locator, overlay, clicker>>
    /\ UNCHANGED parseVars
    /\ UNCHANGED loopVars

\* line 346: return None, ""
ReturnUndetermined ==
    /\ query.pc = "scan"
    /\ query.i > Len(query.rows)
    /\ query' = [query EXCEPT !.pc = "returned", !.result = <<None, "">>]
    /\ UNCHANGED <<locator, overlay, clicker>>
    /\ UNCHANGED parseVars
    /\ UNCHANGED loopVars

QueryNext == FindRows \/ ExamineRow \/ ReturnUndetermined

SpecQuery == QueryInit /\ [][QueryNext]_vars

\* the rows whose text contains the identifier in any letter case
MatchingRows ==
    LET c == query.crn
        At(t, i) == /\ i + Len(c) - 1 <= Len(t)
                    /\ \A k \in 1..Len(c) :
                          LowerCh(Ch(t, i + k - 1)) = LowerCh(Ch(c, k))
    IN  {k \in 1..Len(query.rows) :
            \E i \in 1..Len(RowText(query.rows[k])) : At(RowText(query.rows[k]), i)}

\* C13 as claimed: the call ends by returning; with a matching row the rows
\* up to the first matching one are examined in document order and only that
\* one is parsed; with no matching row the result is (None, "").
C13_FirstMatchOrUndetermined ==
    /\ query.pc # "raised"
    /\ query.pc = "returned" =>
          IF MatchingRows = {}
          THEN query.result = <<None, "">>
          ELSE /\ query.examined = UpTo(Min(MatchingRows))
               /\ query.parsed_rows = <<Min(MatchingRows)>>

\* C13: when the page has result rows the call returns; the rows are
\* examined in document order up to the first whose text contains the
\* identifier in any letter case, only that row is parsed and its seats and
\* blob are the result, and no later row is examined; when no row matches
\* every row is examined, none is parsed and the result is (None, "").  With
\* no result row the wait for rows raises.
C13_FirstMatchingRow ==
    /\ query.pc = "raised" => query.rows = <<>> /\ query.examined = <<>>
    /\ query.pc = "returned" =>
          /\ query.rows # <<>>
          /\ IF MatchingRows = {}
             THEN /\ query.result = <<None, "">>
                  /\ query.examined = UpTo(Len(query.rows))
                  /\ query.parsed_rows = <<>>
             ELSE LET m == Min(MatchingRows) IN
                  /\ query.examined = UpTo(m)
                  /\ query.parsed_rows = <<m>>
                  /\ query.result = parse_row_seats(query.rows[m])
    /\ query.pc = "scan" =>
          /\ query.examined = UpTo(query.i - 1)
          /\ \A k \in 1..(query.i - 1) : k \notin MatchingRows

\* C13 witness: the second row matches in another letter case and is the one
\* parsed, the third matches too and is not examined
C13_Witness ==
    /\ query.pc = "returned"
    /\ query.crn = "Ab1"
    /\ query.rows = << <<"xy9", "Open">>, <<"ab1", "Closed">>, <<"AB1", "3 of 5 seats">> >>
    /\ query.examined = <<1, 2>>
    /\ query.result = <<Some(0), "ab1 Closed | ab1 | Closed">>

====
